---------------------------- MODULE Spec2Model ----------------------------
(***************************************************************************)
(* Orchestration core of the multi-agent backend: the agent registry       *)
(* (registry.py), BaseAgent.execute_skill / Skill.execute and AgentContext *)
(* (base.py), the AgentRouter's classify_intent and its dispatch paths     *)
(* route, route_to_skill and multi_agent_pipeline (router.py), and the     *)
(* lazy initialisation of the registry by the API (api/routes/agents.py).  *)
(*                                                                         *)
(* Python values are modelled as follows.  A dict is a sequence of         *)
(* key/value records in insertion order (CPython dicts iterate in          *)
(* insertion order and keep a key's position when its value is             *)
(* overwritten).  A text built by an f-string is the sequence of its       *)
(* parts; it is empty iff every part is the empty string.  An optional     *)
(* value is a record tagged with field t.                                  *)
(***************************************************************************)
EXTENDS Integers, Sequences, FiniteSets, TLC

VARIABLES
    registry,    \* AgentRegistry._agents: sequence of [name, agent]
    history,     \* log of the registry operations performed so far
    status,      \* BaseAgent.status of every agent instance
    ctx,         \* the AgentContext of the request
    pc,          \* "idle" | "handler" (a skill handler is awaited) | "done"
    req,         \* the dispatch call in progress or last finished
    inflight,    \* the execute_skill frame whose handler is awaited
    idx,         \* multi_agent_pipeline: index i of the step being processed
    responses,   \* multi_agent_pipeline: the local list responses
    calls,       \* log of the handler invocations (agent, skill, kwargs)
    ret,         \* what the last finished call returned or raised
    ncalls,      \* number of dispatch calls started
    agents_initialized,  \* the flag _agents_initialized of the API module
    requests     \* the API requests: where each one is and what it has seen

vars == <<registry, history, status, ctx, pc, req, inflight, idx, responses,
          calls, ret, ncalls, agents_initialized, requests>>

-----------------------------------------------------------------------------
(* Bounds *)

MaxOps == 3        \* registry operations per behaviour (SpecRegistry)
MaxCalls == 2      \* calls per behaviour (SpecExec, SpecRoute, SpecTrace, SpecExperience)
MaxSteps == 3      \* steps of a pipeline (SpecPipeline)
MaxFragments == 3  \* fragments of a classified message (SpecClassify)
MaxRequests == 2   \* concurrent API requests (SpecStartup)

-----------------------------------------------------------------------------
(* Python values *)

PyNone == [t |-> "None"]
PyStr(parts) == [t |-> "str", parts |-> parts]
PyData(v) == [t |-> "data", v |-> v]

\* len(s) = 0 for a text given by its parts
IsEmptyText(s) == \A k \in DOMAIN s.parts : s.parts[k] = ""

NoAgent == "None"          \* Optional[BaseAgent] = None

-----------------------------------------------------------------------------
(* Agent instances.  The six classes that initialize_agents constructs,    *)
(* plus two further BaseAgent subclasses a caller of register may pass:    *)
(* rag2 reports the name "RAGAgent" and also explains concepts, empty      *)
(* registers no skill at all.                                              *)

\* faulty variant: TranslationAgent is not constructed
InitAgentsNoTranslation == <<"content", "code", "rag", "pers", "auth">>

InitAgents == <<"content", "code", "rag", "pers", "trans", "auth">>

AgentIds == {"content", "code", "rag", "pers", "trans", "auth", "rag2", "empty"}

AgentName(a) ==
    CASE a = "content" -> "ContentAgent"
      [] a = "code"    -> "CodeAgent"
      [] a = "rag"     -> "RAGAgent"
      [] a = "pers"    -> "PersonalizationAgent"
      [] a = "trans"   -> "TranslationAgent"
      [] a = "auth"    -> "AuthAgent"
      [] a = "rag2"    -> "RAGAgent"
      [] a = "empty"   -> "EmptyAgent"

\* BaseAgent.skills: the skill names in the order _register_skills adds them
AgentSkills(a) ==
    CASE a = "content" -> <<"createContent", "generateQuizzes", "explainConcepts">>
      [] a = "code"    -> <<"generateCode", "fixCode", "explainCode">>
      [] a = "rag"     -> <<"ragQuery", "searchChapters", "retrieveSections">>
      [] a = "pers"    -> <<"personalizeContent", "adaptDifficulty", "recommendChapters">>
      [] a = "trans"   -> <<"translateToUrdu", "formatRTL", "translateTerms">>
      [] a = "auth"    -> <<"getProfile", "updateProfile", "validateSession",
                            "createSession", "registerUser", "deleteSession">>
      [] a = "rag2"    -> <<"ragQuery", "explainConcepts">>
      [] a = "empty"   -> <<>>

\* Skill.required_context of a skill object
RequiredContext(a, s) ==
    IF a = "pers" /\ s = "personalizeContent" THEN <<"user_profile">> ELSE <<>>

AgentNames == {AgentName(a) : a \in AgentIds}

has_skill(a, s) == \E k \in DOMAIN AgentSkills(a) : AgentSkills(a)[k] = s

-----------------------------------------------------------------------------
(* AgentRegistry *)

KeyIndex(reg, n) ==
    IF \E k \in DOMAIN reg : reg[k].name = n
    THEN CHOOSE k \in DOMAIN reg : reg[k].name = n
    ELSE 0

\* self._agents[agent.name] = agent, keeping the slot of an existing key
\* faulty variant: an existing key keeps its old agent (setdefault)
registerKeepingOld(reg, a) ==
    IF KeyIndex(reg, AgentName(a)) # 0 THEN reg
    ELSE Append(reg, [name |-> AgentName(a), agent |-> a])

\* faulty variant: an existing key is deleted and inserted again at the end
registerMovingToEnd(reg, a) ==
    Append(SelectSeq(reg, LAMBDA e : e.name # AgentName(a)),
           [name |-> AgentName(a), agent |-> a])

register(reg, a) ==
    IF KeyIndex(reg, AgentName(a)) # 0
    THEN [k \in DOMAIN reg |->
            IF reg[k].name = AgentName(a)
            THEN [name |-> AgentName(a), agent |-> a]
            ELSE reg[k]]
    ELSE Append(reg, [name |-> AgentName(a), agent |-> a])

\* del self._agents[agent_name]; the returned flag is unregisterResult
\* faulty variant: a registered name empties the whole mapping
unregisterEverything(reg, n) ==
    IF KeyIndex(reg, n) # 0 THEN <<>> ELSE reg

unregister(reg, n) == SelectSeq(reg, LAMBDA e : e.name # n)

unregisterResult(reg, n) == KeyIndex(reg, n) # 0

clear(reg) == <<>>

get(reg, n) ==
    IF KeyIndex(reg, n) # 0 THEN reg[KeyIndex(reg, n)].agent ELSE NoAgent

\* for agent in self._agents.values(): if agent.has_skill(skill_name): return agent
get_by_skill(reg, s) ==
    LET hits == {k \in DOMAIN reg : has_skill(reg[k].agent, s)}
    IN  IF hits = {} THEN NoAgent
        ELSE reg[CHOOSE k \in hits : \A j \in hits : k <= j].agent

agent_count(reg) == Len(reg)

RECURSIVE registerAll(_, _)
registerAll(reg, as) ==
    IF as = <<>> THEN reg
    ELSE registerAll(register(reg, Head(as)), Tail(as))

\* registry.clear() followed by the six registry.register(...) calls
initialize_agents(reg) == registerAll(clear(reg), InitAgents)


-----------------------------------------------------------------------------
(* Contexts, responses and the idle values of the dispatch variables *)

NoMetadata == [routed_intent |-> PyNone, routing_confidence |-> PyNone]

\* AgentContext(user_id=..., user_profile=...): metadata and trace start empty
AgentContext(uid, profile) ==
    [user_id |-> uid, user_profile |-> profile,
     metadata |-> NoMetadata, trace |-> <<>>]

AgentResponse(success, data, agent_name, skill_name, error) ==
    [success |-> success, data |-> data, agent_name |-> agent_name,
     skill_name |-> skill_name, error |-> error]

NoReq == [op |-> "none"]
NoFrame == [agent |-> NoAgent]
NoRet == [kind |-> "none"]

IdleStatus == [a \in AgentIds |-> "idle"]

\* the API module as imported, no request dispatched yet
RequestIds == 1..MaxRequests
Arrived == [at |-> "arrived", k |-> 0, seen |-> <<>>]
apiVars == <<agents_initialized, requests>>

ApiIdle ==
    /\ agents_initialized = FALSE
    /\ requests = [r \in RequestIds |-> Arrived]

DispatchIdle ==
    /\ ApiIdle
    /\ pc = "idle"
    /\ req = NoReq
    /\ inflight = NoFrame
    /\ idx = 0
    /\ responses = <<>>
    /\ calls = <<>>
    /\ ret = NoRet
    /\ ncalls = 0

dispatchVars == <<ctx, pc, req, inflight, idx, responses, calls, ret, ncalls>>

-----------------------------------------------------------------------------
(* Registry operations as actions.  history records each call made on the  *)
(* registry object, in order.                                              *)

Event(op, arg) == [op |-> op, arg |-> arg]

RECURSIVE registerEvents(_)
registerEvents(as) ==
    IF as = <<>> THEN <<>>
    ELSE <<Event("register", Head(as))>> \o registerEvents(Tail(as))

\* what a registry call leaves alone besides the value it returns
registryFrame == <<ctx, pc, req, inflight, idx, responses, calls, ncalls, apiVars>>

Register(a) ==
    /\ registry' = register(registry, a)
    /\ history' = Append(history, Event("register", a))
    /\ ret' = NoRet
    /\ UNCHANGED <<status, registryFrame>>

Unregister(n) ==
    /\ registry' = unregister(registry, n)
    /\ history' = Append(history, Event("unregister", n))
    /\ ret' = [kind |-> "bool", value |-> unregisterResult(registry, n)]
    /\ UNCHANGED <<status, registryFrame>>

Clear ==
    /\ registry' = clear(registry)
    /\ history' = Append(history, Event("clear", ""))
    /\ ret' = NoRet
    /\ UNCHANGED <<status, registryFrame>>

\* every agent is constructed anew (status IDLE) and registered
InitializeAgents ==
    /\ registry' = initialize_agents(registry)
    /\ history' = history \o <<Event("clear", "")>> \o registerEvents(InitAgents)
    /\ status' = [a \in AgentIds |->
                    IF \E k \in DOMAIN InitAgents : InitAgents[k] = a
                    THEN "idle" ELSE status[a]]
    /\ ret' = NoRet
    /\ UNCHANGED registryFrame

\* number of registry calls made by the application (initialize_agents
\* counts as one)
RECURSIVE OpCount(_)
OpCount(h) ==
    IF h = <<>> THEN 0
    ELSE IF Len(h) >= 1 + Len(InitAgents)
            /\ h[Len(h) - Len(InitAgents)].op = "clear"
            /\ SubSeq(h, Len(h) - Len(InitAgents) + 1, Len(h)) = registerEvents(InitAgents)
         THEN 1 + OpCount(SubSeq(h, 1, Len(h) - Len(InitAgents) - 1))
         ELSE 1 + OpCount(SubSeq(h, 1, Len(h) - 1))

\* agents passed to register and names passed to unregister
RegisterInputs == {"content", "rag", "rag2", "empty"}
UnregisterInputs == {"ContentAgent", "RAGAgent", "EmptyAgent", "GhostAgent"}

InitRegistry ==
    /\ registry = <<>>
    /\ history = <<>>
    /\ status = IdleStatus
    /\ ctx = AgentContext(PyNone, PyNone)
    /\ DispatchIdle

NextRegistry ==
    /\ OpCount(history) < MaxOps
    /\ \/ \E a \in RegisterInputs : Register(a)
       \/ \E n \in UnregisterInputs : Unregister(n)
       \/ Clear
       \/ InitializeAgents

SpecRegistry == InitRegistry /\ [][NextRegistry]_vars

-----------------------------------------------------------------------------
(* What the history of registry calls says about the registry *)

Removes(e, n) == e.op = "clear" \/ (e.op = "unregister" /\ e.arg = n)

\* the agent most recently registered under n and not removed since
RECURSIVE LastRegistered(_, _)
LastRegistered(h, n) ==
    IF h = <<>> THEN NoAgent
    ELSE LET e == h[Len(h)] IN
         IF e.op = "register" /\ AgentName(e.arg) = n THEN e.arg
         ELSE IF Removes(e, n) THEN NoAgent
         ELSE LastRegistered(SubSeq(h, 1, Len(h) - 1), n)

LiveNames(h) == {n \in AgentNames : LastRegistered(h, n) # NoAgent}

\* position in the history since which agent a has been the registered
\* agent of its name without interruption (0 when it is not registered)
RegisteredSince(h, a) ==
    LET n == AgentName(a)
        ok(k) == /\ h[k] = Event("register", a)
                 /\ \A j \in (k + 1)..Len(h) :
                        ~Removes(h[j], n) /\
                        ~(h[j].op = "register" /\ AgentName(h[j].arg) = n /\ h[j].arg # a)
        S == {k \in DOMAIN h : ok(k)}
    IN  IF S = {} THEN 0 ELSE CHOOSE k \in S : \A j \in S : k <= j

\* position in the history since which the name n has been registered
\* without interruption, whichever agents held it (0 when not registered)
NameSince(h, n) ==
    LET ok(k) == /\ h[k].op = "register" /\ AgentName(h[k].arg) = n
                 /\ \A j \in (k + 1)..Len(h) : ~Removes(h[j], n)
        S == {k \in DOMAIN h : ok(k)}
    IN  IF S = {} THEN 0 ELSE CHOOSE k \in S : \A j \in S : k <= j

AllSkills == UNION {{AgentSkills(a)[k] : k \in DOMAIN AgentSkills(a)} : a \in AgentIds}
                \cup {"noSuchSkill"}

\* C9: get(name) returns the agent most recently registered under name, and
\* the number of registered agents is the number of distinct names
\* registered, so registering under an existing name does not change it.
C9_RegisterThenGet ==
    /\ \A n \in AgentNames \cup {"GhostAgent"} :
          get(registry, n) = LastRegistered(history, n)
    /\ agent_count(registry) = Cardinality(LiveNames(history))

\* a second agent has been registered under the name of a registered one
C9_Witness ==
    /\ Len(history) >= 2
    /\ history[Len(history)] = Event("register", "rag2")
    /\ history[Len(history) - 1] = Event("register", "rag")
    /\ get(registry, "RAGAgent") = "rag2"
    /\ agent_count(registry) = 1

\* the registered agents that have skill s
Holders(s) == {a \in AgentIds : get(registry, AgentName(a)) = a /\ has_skill(a, s)}

\* C10 as stated: get_by_skill(s) is the holder of s that was registered
\* first, and None when there is no holder.
C10_FirstRegisteredAgent ==
    \A s \in AllSkills :
        IF Holders(s) = {} THEN get_by_skill(registry, s) = NoAgent
        ELSE /\ get_by_skill(registry, s) \in Holders(s)
             /\ \A b \in Holders(s) :
                   RegisteredSince(history, get_by_skill(registry, s))
                       <= RegisteredSince(history, b)

\* C10 amended: get_by_skill(s) is the holder of s whose name was
\* registered first, and None when there is no holder.
C10_FirstRegisteredName ==
    \A s \in AllSkills :
        IF Holders(s) = {} THEN get_by_skill(registry, s) = NoAgent
        ELSE /\ get_by_skill(registry, s) \in Holders(s)
             /\ \A b \in Holders(s) :
                   NameSince(history, AgentName(get_by_skill(registry, s)))
                       <= NameSince(history, AgentName(b))

\* two holders of explainConcepts, the one found sitting under a name that
\* was taken over after the other holder was registered
C10_Witness ==
    /\ history = <<Event("register", "rag"), Event("register", "content"),
                   Event("register", "rag2")>>
    /\ Holders("explainConcepts") = {"content", "rag2"}
    /\ get_by_skill(registry, "explainConcepts") = "rag2"

\* C11: unregister(name) returns True exactly when name was registered
\* before the call; afterwards get(name) is None and get returns every other
\* registered agent as before; when name was not registered the registry is
\* unchanged.
C11_UnregisterContract ==
    [][ \A n \in UnregisterInputs :
          (history' = Append(history, Event("unregister", n)))
            => /\ ret' = [kind |-> "bool",
                          value |-> (LastRegistered(history, n) # NoAgent)]
               /\ get(registry', n) = NoAgent
               /\ \A m \in AgentNames \ {n} : get(registry', m) = get(registry, m)
               /\ LastRegistered(history, n) = NoAgent => registry' = registry
      ]_vars

\* RAGAgent has been unregistered and ContentAgent is still registered
C11_Witness ==
    /\ history = <<Event("register", "rag"), Event("register", "content"),
                   Event("unregister", "RAGAgent")>>
    /\ ret = [kind |-> "bool", value |-> TRUE]
    /\ get(registry, "RAGAgent") = NoAgent
    /\ get(registry, "ContentAgent") = "content"

-----------------------------------------------------------------------------
(* Intent classification.  A message is a sequence of characters.  A       *)
(* pattern p1.*p2.*p3 is the sequence of its literal pieces, each piece    *)
(* the set of the literals its alternation (e|ion) admits.  The two Urdu   *)
(* words are spelled with the names of their letters.                      *)

INTENT_PATTERNS ==
    <<
      [intent |-> "translation", patterns |->
         <<<<{<<"t", "r", "a", "n", "s", "l", "a", "t", "e">>, <<"t", "r", "a", "n", "s", "l", "a", "t", "i", "o", "n">>}>>,
           <<{<<"ALEF", "REH", "DAL", "WAW">>}>>,
           <<{<<"u", "r", "d", "u">>}>>,
           <<{<<"TEH", "REH", "JEEM", "MEEM">>}>>,
           <<{<<"c", "o", "n", "v", "e", "r", "t">>}, {<<"t", "o">>}, {<<"u", "r", "d", "u">>}>>>>],
      [intent |-> "personalization", patterns |->
         <<<<{<<"p", "e", "r", "s", "o", "n", "a", "l", "i", "z", "e">>, <<"p", "e", "r", "s", "o", "n", "a", "l", "i", "z", "a", "t", "i", "o", "n">>}>>,
           <<{<<"a", "d", "a", "p", "t">>}, {<<"f", "o", "r">>}, {<<"m", "e">>}>>,
           <<{<<"m", "y">>}, {<<"l", "e", "v", "e", "l">>}>>,
           <<{<<"b", "a", "s", "e", "d">>}, {<<"o", "n">>}, {<<"m", "y">>}, {<<"b", "a", "c", "k", "g", "r", "o", "u", "n", "d">>}>>,
           <<{<<"c", "u", "s", "t", "o", "m", "i", "z", "e">>}>>,
           <<{<<"t", "a", "i", "l", "o", "r">>}>>>>],
      [intent |-> "code", patterns |->
         <<<<{<<"c", "o", "d", "e">>}>>,
           <<{<<"p", "r", "o", "g", "r", "a", "m">>}>>,
           <<{<<"i", "m", "p", "l", "e", "m", "e", "n", "t">>}>>,
           <<{<<"w", "r", "i", "t", "e">>}, {<<"f", "u", "n", "c", "t", "i", "o", "n">>}>>,
           <<{<<"p", "y", "t", "h", "o", "n">>}>>,
           <<{<<"j", "a", "v", "a", "s", "c", "r", "i", "p", "t">>}>>,
           <<{<<"f", "i", "x">>}, {<<"b", "u", "g">>}>>,
           <<{<<"d", "e", "b", "u", "g">>}>>,
           <<{<<"s", "y", "n", "t", "a", "x">>}>>>>],
      [intent |-> "content", patterns |->
         <<<<{<<"e", "x", "p", "l", "a", "i", "n">>}>>,
           <<{<<"w", "h", "a", "t">>}, {<<"i", "s">>}>>,
           <<{<<"d", "e", "s", "c", "r", "i", "b", "e">>}>>,
           <<{<<"s", "u", "m", "m", "a", "r", "y">>}>>,
           <<{<<"s", "u", "m", "m", "a", "r", "i", "z", "e">>}>>,
           <<{<<"q", "u", "i", "z">>}>>,
           <<{<<"q", "u", "e", "s", "t", "i", "o", "n">>}>>,
           <<{<<"d", "i", "a", "g", "r", "a", "m">>}>>,
           <<{<<"c", "h", "a", "p", "t", "e", "r">>}>>,
           <<{<<"t", "o", "p", "i", "c">>}>>>>],
      [intent |-> "rag", patterns |->
         <<<<{<<"s", "e", "a", "r", "c", "h">>}>>,
           <<{<<"f", "i", "n", "d">>}>>,
           <<{<<"w", "h", "e", "r", "e">>}, {<<"i", "n">>}, {<<"b", "o", "o", "k">>}>>,
           <<{<<"c", "i", "t", "e">>}>>,
           <<{<<"r", "e", "f", "e", "r", "e", "n", "c", "e">>}>>,
           <<{<<"a", "c", "c", "o", "r", "d", "i", "n", "g">>}, {<<"t", "o">>}>>,
           <<{<<"t", "e", "x", "t", "b", "o", "o", "k">>}, {<<"s", "a", "y", "s">>}>>>>],
      [intent |-> "auth", patterns |->
         <<<<{<<"s", "i", "g", "n">>}, {<<"i", "n">>}>>,
           <<{<<"s", "i", "g", "n">>}, {<<"u", "p">>}>>,
           <<{<<"l", "o", "g", "i", "n">>}>>,
           <<{<<"l", "o", "g", "o", "u", "t">>}>>,
           <<{<<"p", "r", "o", "f", "i", "l", "e">>}>>,
           <<{<<"a", "c", "c", "o", "u", "n", "t">>}>>,
           <<{<<"p", "a", "s", "s", "w", "o", "r", "d">>}>>>>]
    >>

\* Map intents to agents and default skills
\* faulty variant: content is mapped to the first skill of ContentAgent
INTENT_TO_AGENTContentCreates(intent) ==
    CASE intent = "translation"     -> <<"TranslationAgent", "translateToUrdu">>
      [] intent = "personalization" -> <<"PersonalizationAgent", "personalizeContent">>
      [] intent = "code"            -> <<"CodeAgent", "generateCode">>
      [] intent = "content"         -> <<"ContentAgent", "createContent">>
      [] intent = "rag"             -> <<"RAGAgent", "ragQuery">>
      [] intent = "auth"            -> <<"AuthAgent", "getProfile">>

INTENT_TO_AGENT(intent) ==
    CASE intent = "translation"     -> <<"TranslationAgent", "translateToUrdu">>
      [] intent = "personalization" -> <<"PersonalizationAgent", "personalizeContent">>
      [] intent = "code"            -> <<"CodeAgent", "generateCode">>
      [] intent = "content"         -> <<"ContentAgent", "explainConcepts">>
      [] intent = "rag"             -> <<"RAGAgent", "ragQuery">>
      [] intent = "auth"            -> <<"AuthAgent", "getProfile">>

Intents == {INTENT_PATTERNS[k].intent : k \in DOMAIN INTENT_PATTERNS}

UpperCase == <<"A", "B", "C", "D", "E", "F", "G", "H", "I", "J", "K", "L", "M",
               "N", "O", "P", "Q", "R", "S", "T", "U", "V", "W", "X", "Y", "Z">>
LowerCase == <<"a", "b", "c", "d", "e", "f", "g", "h", "i", "j", "k", "l", "m",
               "n", "o", "p", "q", "r", "s", "t", "u", "v", "w", "x", "y", "z">>

\* str.lower()
lower(m) ==
    [k \in DOMAIN m |->
        IF \E u \in DOMAIN UpperCase : UpperCase[u] = m[k]
        THEN LowerCase[CHOOSE u \in DOMAIN UpperCase : UpperCase[u] = m[k]]
        ELSE m[k]]

OccursAt(m, lit, p) ==
    /\ p + Len(lit) - 1 <= Len(m)
    /\ \A j \in 1..Len(lit) : m[p + j - 1] = lit[j]

\* .* matches any run of characters other than a newline
GapOk(m, from, to) == \A j \in from..(to - 1) : m[j] # "\n"

RECURSIVE MatchRest(_, _, _, _)
MatchRest(m, pat, k, pos) ==
    IF k > Len(pat) THEN TRUE
    ELSE \E p \in pos..Len(m) :
            /\ GapOk(m, pos, p)
            /\ \E lit \in pat[k] :
                  OccursAt(m, lit, p) /\ MatchRest(m, pat, k + 1, p + Len(lit))

\* re.search(pattern, message) finds a match
re_search(pat, m) ==
    \E p \in 1..Len(m) :
        \E lit \in pat[1] :
            OccursAt(m, lit, p) /\ MatchRest(m, pat, 2, p + Len(lit))

\* score of one category: the number of its patterns that match the
\* lower-cased message
Score(k, message_lower) ==
    Cardinality({j \in DOMAIN INTENT_PATTERNS[k].patterns :
                    re_search(INTENT_PATTERNS[k].patterns[j], message_lower)})

\* the dict scores, one entry per category in the order of INTENT_PATTERNS
Scores(m) ==
    LET message_lower == lower(m)
    IN  [k \in DOMAIN INTENT_PATTERNS |-> Score(k, message_lower)]

Fraction(num, den) == [num |-> num, den |-> den]

\* ("rag", 0.5), returned when no pattern of any category matches
\* faulty variant: the default is routed as content
DefaultClassificationContent == [intent |-> "content", confidence |-> Fraction(1, 2)]

DefaultClassification == [intent |-> "rag", confidence |-> Fraction(1, 2)]

\* min(score / 3, 1.0)
\* faulty variant: score / 3 without the cap
ConfidenceUncapped(score) == Fraction(score, 3)

Confidence(score) == IF score >= 3 THEN Fraction(1, 1) ELSE Fraction(score, 3)

\* (intent, confidence); max(scores, key=scores.get) is the first category,
\* in the order of INTENT_PATTERNS, that has the highest score
\* faulty variant: the last category that has the highest score
classify_intentLastMax(m) ==
    LET scores == Scores(m)
        best == CHOOSE k \in DOMAIN scores :
                    /\ \A j \in DOMAIN scores : scores[j] <= scores[k]
                    /\ \A j \in (k + 1)..Len(scores) : scores[j] < scores[k]
    IN  IF \A k \in DOMAIN scores : scores[k] = 0
        THEN DefaultClassification
        ELSE [intent |-> INTENT_PATTERNS[best].intent,
              confidence |-> Confidence(scores[best])]

classify_intent(m) ==
    LET scores == Scores(m)
        best == CHOOSE k \in DOMAIN scores :
                    /\ \A j \in DOMAIN scores : scores[j] <= scores[k]
                    /\ \A j \in 1..(k - 1) : scores[j] < scores[k]
    IN  IF \A k \in DOMAIN scores : scores[k] = 0
        THEN DefaultClassification
        ELSE [intent |-> INTENT_PATTERNS[best].intent,
              confidence |-> Confidence(scores[best])]

\* (agent, skill_name) for an intent
get_agent_for_intent(reg, intent) ==
    IF intent \notin Intents
    THEN [agent |-> get(reg, "RAGAgent"), skill |-> "ragQuery"]
    ELSE [agent |-> get(reg, INTENT_TO_AGENT(intent)[1]),
          skill |-> INTENT_TO_AGENT(intent)[2]]

MsgExplain ==
    <<"e", "x", "p", "l", "a", "i", "n", " ", "w", "h", "a", "t", " ", "i", "s", " ", "i", "n", "v", "e", "r", "s", "e", " ", "k", "i", "n", "e", "m", "a", "t", "i", "c", "s">>
MsgHello ==
    <<"H", "e", "l", "l", "o", " ", "r", "o", "b", "o", "t">>
MsgTranslate ==
    <<"t", "r", "a", "n", "s", "l", "a", "t", "e", " ", "t", "h", "i", "s", " ", "c", "h", "a", "p", "t", "e", "r", " ", "t", "o", " ", "u", "r", "d", "u">>

Messages == {MsgExplain, MsgHello, MsgTranslate}

\* the classification of each message of the model, computed once
Classified == [m \in Messages |-> classify_intent(m)]

\* Messages given to classify_intent directly: up to MaxFragments fragments
\* joined by single spaces.
FragTranslate == <<"T", "r", "a", "n", "s", "l", "a", "t", "e">>
FragPython == <<"p", "y", "t", "h", "o", "n", " ", "c", "o", "d", "e">>
FragFix == <<"f", "i", "x">>
FragDebug == <<"d", "e", "b", "u", "g">>
FragSearch == <<"s", "e", "a", "r", "c", "h">>
FragNewline == <<"\n">>

Fragments == {FragTranslate, FragPython, FragFix, FragDebug, FragSearch, FragNewline}

RECURSIVE Join(_)
Join(fs) ==
    IF fs = <<>> THEN <<>>
    ELSE IF Len(fs) = 1 THEN fs[1]
    ELSE fs[1] \o <<" ">> \o Join(Tail(fs))

ClassifyMessages == {Join(fs) : fs \in UNION {[1..n -> Fragments] : n \in 0..MaxFragments}}

ClassifyTable == [m \in ClassifyMessages |-> classify_intent(m)]


-----------------------------------------------------------------------------
(* Skill handlers are external: a handler returns a value or raises.       *)
(* ValueError and RuntimeError derive from Exception;                      *)
(* asyncio.CancelledError derives from BaseException only.                 *)

Return(d) == [kind |-> "return", data |-> d]
Raise(cls, msg) == [kind |-> "raise", cls |-> cls, msg |-> msg]

ExceptionClasses == {"ValueError", "RuntimeError", "IndexError"}

\* isinstance(e, Exception)
IsException(e) == e.cls \in ExceptionClasses

\* str(e); msg holds the parts of the exception's message
StrOf(e) == PyStr(e.msg)

Absent == [t |-> "absent"]
NoKwargs == [message |-> Absent, previous_output |-> Absent]

\* Skill.execute up to the call of the handler: the ValueError raised for
\* the first required field that the context lacks or holds as None, or
\* "call" when the handler is called
Skill_execute(c, a, s) ==
    LET rc == RequiredContext(a, s)
        bad == {k \in DOMAIN rc : rc[k] \notin DOMAIN c \/ c[rc[k]] = PyNone}
    IN  IF bad = {} THEN [kind |-> "call"]
        ELSE Raise("ValueError",
                   <<"Missing required context field: ",
                     rc[CHOOSE k \in bad : \A j \in bad : k <= j]>>)

\* A text produced by str() is a sequence of segments, each the first n
\* characters of the text of one value or literal.
TraceLimit == 500

Seg(of, n) == [of |-> of, n |-> n]
Lit(s, n) == Seg([t |-> "lit", s |-> s], n)

\* a str of n characters, all ch
PyRepeat(ch, n) == [t |-> "repeat", ch |-> ch, n |-> n]

RECURSIVE TextLen(_)
TextLen(text) == IF text = <<>> THEN 0 ELSE Head(text).n + TextLen(Tail(text))

\* text[:limit]
RECURSIVE Slice(_, _)
Slice(text, limit) ==
    IF text = <<>> \/ limit = 0 THEN <<>>
    ELSE IF Head(text).n <= limit
         THEN <<Head(text)>> \o Slice(Tail(text), limit - Head(text).n)
         ELSE <<Seg(Head(text).of, limit)>>

\* str(v) of a value that is not a dict
StrValue(v) ==
    CASE v.t = "None"   -> <<Lit("None", 4)>>
      [] v.t = "repeat" -> <<Seg(v, v.n)>>
      [] v.t = "str"    -> <<Seg(v, Len(v.chars))>>
      [] v.t = "data"   -> <<Seg(v, 1)>>

\* repr(v): a str is shown between quotes
ReprValue(v) ==
    IF v.t \in {"repeat", "str"}
    THEN <<Lit("'", 1)>> \o StrValue(v) \o <<Lit("'", 1)>>
    ELSE StrValue(v)

\* str(kwargs): {'message': ..., 'previous_output': ...} with the keys present
StrKwargs(kw) ==
    LET m == IF kw.message = Absent THEN <<>>
             ELSE <<Lit("'message': ", 11)>> \o ReprValue(kw.message)
        o == IF kw.previous_output = Absent THEN <<>>
             ELSE <<Lit("'previous_output': ", 19)>> \o ReprValue(kw.previous_output)
        sep == IF m # <<>> /\ o # <<>> THEN <<Lit(", ", 2)>> ELSE <<>>
    IN  <<Lit("{", 1)>> \o m \o sep \o o \o <<Lit("}", 1)>>

str(v) == IF "t" \in DOMAIN v THEN StrValue(v) ELSE StrKwargs(v)

\* AgentContext.add_trace
\* faulty variant: the summaries are not truncated
add_traceUntruncated(c, agent_name, skill_name, input_data, output_data) ==
    [c EXCEPT !.trace = Append(@, [agent |-> agent_name, skill |-> skill_name,
                                   input |-> str(input_data),
                                   output |-> str(output_data)])]

\* faulty variant: self.trace.insert(0, ...)
add_tracePrepending(c, agent_name, skill_name, input_data, output_data) ==
    [c EXCEPT !.trace = <<[agent |-> agent_name, skill |-> skill_name,
                           input |-> Slice(str(input_data), TraceLimit),
                           output |-> Slice(str(output_data), TraceLimit)]>> \o @]

add_trace(c, agent_name, skill_name, input_data, output_data) ==
    [c EXCEPT !.trace = Append(@, [agent |-> agent_name, skill |-> skill_name,
                                   input |-> Slice(str(input_data), TraceLimit),
                                   output |-> Slice(str(output_data), TraceLimit)])]

Returned(st, c, r) == [kind |-> "response", resp |-> r, status |-> st, ctx |-> c]
Propagated(st, c, e) == [kind |-> "raise", exc |-> e, status |-> st, ctx |-> c]

\* the except Exception clause of execute_skill, for an exception e raised
\* inside the try block
\* faulty variant: except ValueError
exceptClauseValueErrorOnly(st, c, a, s, e) ==
    IF e.cls = "ValueError"
    THEN Returned([st EXCEPT ![a] = "error"], c,
                  AgentResponse(FALSE, PyNone, AgentName(a), s, StrOf(e)))
    ELSE Propagated(st, c, e)

exceptClause(st, c, a, s, e) ==
    IF IsException(e)
    THEN Returned([st EXCEPT ![a] = "error"], c,
                  AgentResponse(FALSE, PyNone, AgentName(a), s, StrOf(e)))
    ELSE Propagated(st, c, e)

\* BaseAgent.execute_skill from its entry to the await of the handler.
\* kind "await": the handler has been called and is awaited.
\* faulty variant: no membership test, self.skills[skill_name] raises KeyError
execute_skill_beginNoLookup(st, c, a, s) ==
    IF ~has_skill(a, s)
    THEN Propagated(st, c, Raise("KeyError", <<"'", s, "'">>))
    ELSE LET running == [st EXCEPT ![a] = "running"]
             v == Skill_execute(c, a, s)
         IN  IF v.kind = "raise" THEN exceptClause(running, c, a, s, v)
             ELSE [kind |-> "await", status |-> running, ctx |-> c]

\* faulty variant: self.status = AgentStatus.RUNNING precedes the lookup
execute_skill_beginRunningFirst(st, c, a, s) ==
    LET running == [st EXCEPT ![a] = "running"] IN
    IF ~has_skill(a, s)
    THEN Returned(running, c, AgentResponse(FALSE, PyNone, AgentName(a), s,
            PyStr(<<"Skill '", s, "' not found in agent '", AgentName(a), "'">>)))
    ELSE LET v == Skill_execute(c, a, s)
         IN  IF v.kind = "raise" THEN exceptClause(running, c, a, s, v)
             ELSE [kind |-> "await", status |-> running, ctx |-> c]

execute_skill_begin(st, c, a, s) ==
    IF ~has_skill(a, s)
    THEN Returned(st, c, AgentResponse(FALSE, PyNone, AgentName(a), s,
            PyStr(<<"Skill '", s, "' not found in agent '", AgentName(a), "'">>)))
    ELSE LET running == [st EXCEPT ![a] = "running"]
             v == Skill_execute(c, a, s)
         IN  IF v.kind = "raise" THEN exceptClause(running, c, a, s, v)
             ELSE [kind |-> "await", status |-> running, ctx |-> c]

\* BaseAgent.execute_skill from the completion of the handler to its exit
\* faulty variant: self.status = AgentStatus.SUCCESS is missing
execute_skill_endStaysRunning(st, c, a, s, kwargs, out) ==
    IF out.kind = "return"
    THEN Returned(st,
                  add_trace(c, AgentName(a), s, kwargs, out.data),
                  AgentResponse(TRUE, out.data, AgentName(a), s, PyNone))
    ELSE exceptClause(st, c, a, s, out)

\* faulty variant: context.add_trace is called in the except clause too
execute_skill_endTracingFailures(st, c, a, s, kwargs, out) ==
    IF out.kind = "return"
    THEN Returned([st EXCEPT ![a] = "success"],
                  add_trace(c, AgentName(a), s, kwargs, out.data),
                  AgentResponse(TRUE, out.data, AgentName(a), s, PyNone))
    ELSE exceptClause(st, add_trace(c, AgentName(a), s, kwargs, PyNone), a, s, out)

execute_skill_end(st, c, a, s, kwargs, out) ==
    IF out.kind = "return"
    THEN Returned([st EXCEPT ![a] = "success"],
                  add_trace(c, AgentName(a), s, kwargs, out.data),
                  AgentResponse(TRUE, out.data, AgentName(a), s, PyNone))
    ELSE exceptClause(st, c, a, s, out)


-----------------------------------------------------------------------------
(* AgentRouter *)

NoneArg == "<None>"                 \* an optional str argument left as None
Falsy(x) == x \in {NoneArg, ""}     \* not x

PyText(m) == [t |-> "str", chars |-> m]

Awaiting(b, a, s, kwargs) ==
    IF b.kind = "await"
    THEN [kind |-> "await", status |-> b.status, ctx |-> b.ctx,
          frame |-> [agent |-> a, skill |-> s, kwargs |-> kwargs]]
    ELSE b

\* await agent.execute_skill(skill_name, context, **kwargs), to the first
\* point at which it returns, raises or awaits the handler
call_execute_skill(st, c, a, s, kwargs) ==
    Awaiting(execute_skill_begin(st, c, a, s), a, s, kwargs)

\* list(agent.skills.keys())[0]
\* faulty variant: list(agent.skills.keys())[-1]
FirstSkillLast(a) == AgentSkills(a)[Len(AgentSkills(a))]

FirstSkill(a) == AgentSkills(a)[1]

\* faulty variant: the classification is recorded before the forced branch
routeForcedRecording(reg, st, c, message, force_agent, force_skill) ==
    LET agent == get(reg, force_agent)
        cls == Classified[message]
        recorded == [c EXCEPT !.metadata =
                        [routed_intent |-> PyStr(<<cls.intent>>),
                         routing_confidence |-> cls.confidence]]
    IN
    IF agent = NoAgent
    THEN Returned(st, recorded,
            AgentResponse(FALSE, PyNone, force_agent,
                          IF Falsy(force_skill) THEN "unknown" ELSE force_skill,
                          PyStr(<<"Agent '", force_agent, "' not found">>)))
    ELSE IF Falsy(force_skill) /\ AgentSkills(agent) = <<>>
    THEN Propagated(st, recorded, Raise("IndexError", <<"list index out of range">>))
    ELSE call_execute_skill(st, recorded, agent,
                            IF Falsy(force_skill) THEN FirstSkill(agent) ELSE force_skill,
                            [NoKwargs EXCEPT !.message = PyText(message)])

routeForced(reg, st, c, message, force_agent, force_skill) ==
    LET agent == get(reg, force_agent) IN
    IF agent = NoAgent
    THEN Returned(st, c,
            AgentResponse(FALSE, PyNone, force_agent,
                          IF Falsy(force_skill) THEN "unknown" ELSE force_skill,
                          PyStr(<<"Agent '", force_agent, "' not found">>)))
    ELSE IF Falsy(force_skill) /\ AgentSkills(agent) = <<>>
    THEN Propagated(st, c, Raise("IndexError", <<"list index out of range">>))
    ELSE call_execute_skill(st, c, agent,
                            IF Falsy(force_skill) THEN FirstSkill(agent) ELSE force_skill,
                            [NoKwargs EXCEPT !.message = PyText(message)])

routeClassified(reg, st, c, message) ==
    LET cls == Classified[message]
        target == get_agent_for_intent(reg, cls.intent)
    IN  IF target.agent = NoAgent
        THEN Returned(st, c,
                AgentResponse(FALSE, PyNone, "unknown", "unknown",
                              PyStr(<<"No agent available for this request">>)))
        ELSE call_execute_skill(
                st,
                [c EXCEPT !.metadata =
                    [routed_intent |-> PyStr(<<cls.intent>>),
                     routing_confidence |-> cls.confidence]],
                target.agent, target.skill,
                [NoKwargs EXCEPT !.message = PyText(message)])

\* AgentRouter.route up to its first return, raise or await
route(reg, st, c, message, force_agent, force_skill) ==
    IF ~Falsy(force_agent)
    THEN routeForced(reg, st, c, message, force_agent, force_skill)
    ELSE routeClassified(reg, st, c, message)

\* AgentRouter.route_to_skill up to its first return, raise or await
\* faulty variant: the first registered agent, whatever its skills
route_to_skillFirstAgent(reg, st, c, skill_name) ==
    IF reg = <<>>
    THEN Returned(st, c,
            AgentResponse(FALSE, PyNone, "unknown", skill_name,
                          PyStr(<<"No agent found with skill '", skill_name, "'">>)))
    ELSE call_execute_skill(st, c, reg[1].agent, skill_name, NoKwargs)

route_to_skill(reg, st, c, skill_name) ==
    LET agent == get_by_skill(reg, skill_name) IN
    IF agent = NoAgent
    THEN Returned(st, c,
            AgentResponse(FALSE, PyNone, "unknown", skill_name,
                          PyStr(<<"No agent found with skill '", skill_name, "'">>)))
    ELSE call_execute_skill(st, c, agent, skill_name, NoKwargs)

\* step.get("stop_on_error", True), with the key possibly absent
\* faulty variant: step.get("stop_on_error") without the default
StopOnErrorNoDefault(step) == step.stop_on_error = "true"

StopOnError(step) == step.stop_on_error \in {"absent", "true"}

PipelineDone(st, c, i, resps) ==
    [kind |-> "responses", idx |-> i, responses |-> resps, status |-> st, ctx |-> c]

\* the kwargs a step is executed with
\* faulty variant: responses[0] instead of responses[-1]
StepKwargsFirst(step, resps) ==
    IF resps # <<>> /\ step.use_previous_output
    THEN [step.kwargs EXCEPT !.previous_output = resps[1].data]
    ELSE step.kwargs

StepKwargs(step, resps) ==
    IF resps # <<>> /\ step.use_previous_output
    THEN [step.kwargs EXCEPT !.previous_output = resps[Len(resps)].data]
    ELSE step.kwargs

MissingAgentResponse(step, i) ==
    AgentResponse(FALSE, PyNone, step.agent, step.skill,
                  PyStr(<<"Agent '", step.agent, "' not found at step ", ToString(i)>>))

\* after the response synthesized for a missing agent: break or continue
\* faulty variant: break whatever the flag
BreakOnMissingAlways(step) == TRUE

BreakOnMissing(step) == StopOnError(step)

\* after responses.append(response): break or go on with the next step
\* faulty variant: break on every failure
BreakAfterAnyFailure(step, r) == ~r.success

BreakAfter(step, r) == ~r.success /\ StopOnError(step)

\* the for loop of multi_agent_pipeline from step i (0-based) on, to the
\* first point at which the pipeline returns, raises or awaits a handler
RECURSIVE pipeline_loop(_, _, _, _, _, _)
pipeline_loop(reg, st, c, steps, i, resps) ==
    IF i >= Len(steps) THEN PipelineDone(st, c, i, resps)
    ELSE
      LET step == steps[i + 1]
          agent == get(reg, step.agent)
      IN
      IF agent = NoAgent
      THEN LET r == MissingAgentResponse(step, i) IN
           IF BreakOnMissing(step)
           THEN PipelineDone(st, c, i, Append(resps, r))
           ELSE pipeline_loop(reg, st, c, steps, i + 1, Append(resps, r))
      ELSE LET b == call_execute_skill(st, c, agent, step.skill, StepKwargs(step, resps)) IN
           IF b.kind = "response"
           THEN IF BreakAfter(step, b.resp)
                THEN PipelineDone(b.status, b.ctx, i, Append(resps, b.resp))
                ELSE pipeline_loop(reg, b.status, b.ctx, steps, i + 1, Append(resps, b.resp))
           ELSE b @@ [idx |-> i, responses |-> resps]

\* multi_agent_pipeline resumed when the handler awaited at step i completes
\* faulty variant: the next step is started without responses.append
pipeline_resumeUnrecorded(reg, st, c, steps, i, resps, frame, out) ==
    LET e == execute_skill_end(st, c, frame.agent, frame.skill, frame.kwargs, out) IN
    IF e.kind = "raise" THEN e @@ [idx |-> i, responses |-> resps]
    ELSE IF BreakAfter(steps[i + 1], e.resp)
         THEN PipelineDone(e.status, e.ctx, i, Append(resps, e.resp))
         ELSE pipeline_loop(reg, e.status, e.ctx, steps, i + 1, resps)

pipeline_resume(reg, st, c, steps, i, resps, frame, out) ==
    LET e == execute_skill_end(st, c, frame.agent, frame.skill, frame.kwargs, out) IN
    IF e.kind = "raise" THEN e @@ [idx |-> i, responses |-> resps]
    ELSE IF BreakAfter(steps[i + 1], e.resp)
         THEN PipelineDone(e.status, e.ctx, i, Append(resps, e.resp))
         ELSE pipeline_loop(reg, e.status, e.ctx, steps, i + 1, Append(resps, e.resp))

-----------------------------------------------------------------------------
(* Dispatch calls as actions.  A call runs to its first await of a handler *)
(* (pc = "handler") or to its end (pc = "done"); HandlerCompletes resumes  *)
(* it with the handler's outcome.                                          *)

RetOf(b) ==
    CASE b.kind = "response"  -> [kind |-> "response", value |-> b.resp]
      [] b.kind = "responses" -> [kind |-> "responses", value |-> b.responses]
      [] b.kind = "raise"     -> [kind |-> "raise", exc |-> b.exc]
      [] b.kind = "await"     -> NoRet

\* move to the point the call has run to
Proceed(b) ==
    /\ pc' = IF b.kind = "await" THEN "handler" ELSE "done"
    /\ status' = b.status
    /\ ctx' = b.ctx
    /\ inflight' = IF b.kind = "await" THEN b.frame ELSE NoFrame
    /\ calls' = IF b.kind = "await"
                THEN Append(calls, [frame |-> b.frame,
                                    step |-> IF "idx" \in DOMAIN b THEN b.idx ELSE -1])
                ELSE calls
    /\ ret' = RetOf(b)
    /\ idx' = IF "idx" \in DOMAIN b THEN b.idx ELSE idx
    /\ responses' = IF "responses" \in DOMAIN b THEN b.responses ELSE responses
    /\ UNCHANGED <<registry, history, apiVars>>

CanCall == pc \in {"idle", "done"}

CallExecuteSkill(a, s) ==
    /\ CanCall
    /\ req' = [op |-> "execute_skill", agent |-> a, skill |-> s]
    /\ ncalls' = ncalls + 1
    /\ Proceed(call_execute_skill(status, ctx, a, s, NoKwargs))

\* execute_skill called with keyword arguments
CallExecuteSkillWith(a, s, kwargs) ==
    /\ CanCall
    /\ req' = [op |-> "execute_skill", agent |-> a, skill |-> s]
    /\ ncalls' = ncalls + 1
    /\ Proceed(call_execute_skill(status, ctx, a, s, kwargs))

CallRoute(message, force_agent, force_skill) ==
    /\ CanCall
    /\ req' = [op |-> "route", message |-> message,
               force_agent |-> force_agent, force_skill |-> force_skill]
    /\ ncalls' = ncalls + 1
    /\ Proceed(route(registry, status, ctx, message, force_agent, force_skill))

CallRouteToSkill(s) ==
    /\ CanCall
    /\ req' = [op |-> "route_to_skill", skill |-> s]
    /\ ncalls' = ncalls + 1
    /\ Proceed(route_to_skill(registry, status, ctx, s))

CallPipeline(steps) ==
    /\ CanCall
    /\ req' = [op |-> "pipeline", steps |-> steps]
    /\ ncalls' = ncalls + 1
    /\ Proceed(pipeline_loop(registry, status, ctx, steps, 0, <<>>))

HandlerCompletes(out) ==
    /\ pc = "handler"
    /\ UNCHANGED <<req, ncalls>>
    /\ IF req.op = "pipeline"
       THEN Proceed(pipeline_resume(registry, status, ctx, req.steps, idx,
                                    responses, inflight, out))
       ELSE Proceed(execute_skill_end(status, ctx, inflight.agent, inflight.skill,
                                      inflight.kwargs, out))


-----------------------------------------------------------------------------
(* Specifications of the dispatch paths *)

\* the registry after the registry calls logged in h
RECURSIVE Replay(_)
Replay(h) ==
    IF h = <<>> THEN <<>>
    ELSE LET reg == Replay(SubSeq(h, 1, Len(h) - 1))
             e == h[Len(h)]
         IN  CASE e.op = "register"   -> register(reg, e.arg)
               [] e.op = "unregister" -> unregister(reg, e.arg)
               [] e.op = "clear"      -> clear(reg)

StartupHistory == <<Event("clear", "")>> \o registerEvents(InitAgents)

\* registry call sequences the dispatch specifications start from: nothing
\* registered yet, the application's startup, startup with a skill-less
\* agent added, startup with an agent removed, startup with an agent
\* replaced
StartHistories ==
    { <<>>,
      StartupHistory,
      StartupHistory \o <<Event("register", "empty")>>,
      StartupHistory \o <<Event("unregister", "ContentAgent")>>,
      StartupHistory \o <<Event("register", "rag2")>> }

\* values of AgentContext.user_profile: None, {} and a map of two entries
EmptyDict == [t |-> "dict", size |-> 0]

ProfileValues == {PyNone, EmptyDict, [t |-> "dict", size |-> 2]}

InitDispatch(histories, profiles) ==
    /\ history \in histories
    /\ registry = Replay(history)
    /\ status = IdleStatus
    /\ ctx \in {AgentContext(PyNone, p) : p \in profiles}
    /\ DispatchIdle

\* outcomes of a handler call
Outcomes ==
    { Return(PyData("X")), Return(PyData("Y")),
      Raise("RuntimeError", <<"boom">>), Raise("ValueError", <<"">>),
      Raise("CancelledError", <<"">>) }

\* direct calls of execute_skill on an agent object
ExecAgents == {"pers", "content", "empty"}
ExecSkills == {"personalizeContent", "explainConcepts", "noSuchSkill"}

InitExec == InitDispatch({StartupHistory}, ProfileValues)

NextExec ==
    \/ /\ ncalls < MaxCalls
       /\ \E a \in ExecAgents, s \in ExecSkills : CallExecuteSkill(a, s)
    \/ \E out \in Outcomes : HandlerCompletes(out)

SpecExec == InitExec /\ [][NextExec]_vars

\* calls of route and route_to_skill
ForceAgents == {NoneArg, "ContentAgent", "EmptyAgent", "GhostAgent"}
ForceSkills == {NoneArg, "explainConcepts", "noSuchSkill"}
RoutedSkills == {"explainConcepts", "ragQuery", "noSuchSkill"}

InitRoute == InitDispatch(StartHistories, ProfileValues)

NextRoute ==
    \/ /\ ncalls < MaxCalls
       /\ \E m \in Messages, fa \in ForceAgents, fs \in ForceSkills :
             CallRoute(m, fa, fs)
    \/ /\ ncalls < MaxCalls
       /\ \E s \in RoutedSkills : CallRouteToSkill(s)
    \/ \E out \in Outcomes : HandlerCompletes(out)

SpecRoute == InitRoute /\ [][NextRoute]_vars

\* one call of multi_agent_pipeline
StepTargets ==
    { [agent |-> "ContentAgent", skill |-> "explainConcepts"],
      [agent |-> "PersonalizationAgent", skill |-> "personalizeContent"],
      [agent |-> "ContentAgent", skill |-> "noSuchSkill"],
      [agent |-> "GhostAgent", skill |-> "explainConcepts"] }

Steps ==
    { [agent |-> t.agent, skill |-> t.skill, kwargs |-> NoKwargs,
       use_previous_output |-> u, stop_on_error |-> x] :
         t \in StepTargets, u \in BOOLEAN, x \in {"absent", "true", "false"} }

StepLists == UNION {[1..n -> Steps] : n \in 0..MaxSteps}

PipelineOutcomes ==
    { Return(PyData("X")),
      Raise("RuntimeError", <<"boom">>), Raise("CancelledError", <<"">>) }

\* the request carries no user profile
InitPipeline == InitDispatch({StartupHistory}, {PyNone})

NextPipeline ==
    \/ /\ ncalls = 0
       /\ \E steps \in StepLists : CallPipeline(steps)
    \/ \E out \in PipelineOutcomes : HandlerCompletes(out)

SpecPipeline == InitPipeline /\ [][NextPipeline]_vars

\* a request that makes several dispatch calls of any kind on one context
DispatchAgents == {"content"}
DispatchSkills == {"explainConcepts", "noSuchSkill"}
DispatchForced == {NoneArg, "GhostAgent"}
DispatchRouted == {"ragQuery", "noSuchSkill"}

Step(agent, skill, stop_on_error) ==
    [agent |-> agent, skill |-> skill, kwargs |-> NoKwargs,
     use_previous_output |-> FALSE, stop_on_error |-> stop_on_error]

DispatchStepLists ==
    { <<>>,
      <<Step("ContentAgent", "explainConcepts", "absent"),
        Step("RAGAgent", "ragQuery", "absent")>>,
      <<Step("RAGAgent", "ragQuery", "absent"),
        Step("ContentAgent", "noSuchSkill", "false"),
        Step("ContentAgent", "explainConcepts", "absent")>>,
      <<Step("ContentAgent", "noSuchSkill", "absent"),
        Step("ContentAgent", "explainConcepts", "absent")>> }

InitAnyDispatch == InitDispatch({StartupHistory}, {PyNone})

NextAnyDispatch ==
    \/ /\ ncalls < MaxCalls
       /\ \E a \in DispatchAgents, s \in DispatchSkills : CallExecuteSkill(a, s)
    \/ /\ ncalls < MaxCalls
       /\ \E fa \in DispatchForced : CallRoute(MsgExplain, fa, NoneArg)
    \/ /\ ncalls < MaxCalls
       /\ \E s \in DispatchRouted : CallRouteToSkill(s)
    \/ /\ ncalls < MaxCalls
       /\ \E steps \in DispatchStepLists : CallPipeline(steps)
    \/ \E out \in PipelineOutcomes : HandlerCompletes(out)

SpecAnyDispatch == InitAnyDispatch /\ [][NextAnyDispatch]_vars

\* calls of classify_intent
CallClassifyIntent(m) ==
    /\ CanCall
    /\ req' = [op |-> "classify_intent", message |-> m]
    /\ ret' = [kind |-> "classification", value |-> ClassifyTable[m]]
    /\ pc' = "done"
    /\ ncalls' = ncalls + 1
    /\ UNCHANGED <<registry, history, status, ctx, inflight, idx, responses, calls,
                   apiVars>>

InitClassify == InitDispatch({StartupHistory}, {PyNone})

NextClassify ==
    /\ ncalls = 0
    /\ \E m \in ClassifyMessages : CallClassifyIntent(m)

SpecClassify == InitClassify /\ [][NextClassify]_vars

\* execute_skill with short and long arguments and results: str(kwargs) has
\* 15 characters more than the message
TraceKwargs ==
    {NoKwargs} \cup
    {[NoKwargs EXCEPT !.message = PyRepeat("m", n)] :
        n \in {TraceLimit - 15, TraceLimit - 14, 2 * TraceLimit}}

TraceOutcomes ==
    {Return(PyRepeat("r", n)) : n \in {0, TraceLimit, TraceLimit + 1}}
        \cup {Return(PyNone), Raise("RuntimeError", <<"boom">>)}

InitTrace == InitDispatch({StartupHistory}, {PyNone})

NextTrace ==
    \/ /\ ncalls < MaxCalls
       /\ \E kw \in TraceKwargs : CallExecuteSkillWith("content", "explainConcepts", kw)
    \/ \E out \in TraceOutcomes : HandlerCompletes(out)

SpecTrace == InitTrace /\ [][NextTrace]_vars

-----------------------------------------------------------------------------
(* AgentContext.get_user_experience_level.  A user profile is a map that   *)
(* may hold software_experience and hardware_experience next to one other  *)
(* entry; NoKey marks a key the map does not hold.                         *)

NoKey == "<no key>"

\* values found under the two keys: the five levels, a word that is no
\* level, or no entry
ExperienceValues ==
    {"none", "beginner", "intermediate", "advanced", "expert", "guru", NoKey}

UserProfile(sw, hw) ==
    [t |-> "dict",
     size |-> 1 + (IF sw = NoKey THEN 0 ELSE 1) + (IF hw = NoKey THEN 0 ELSE 1),
     software_experience |-> sw, hardware_experience |-> hw]

ExperienceProfiles ==
    {PyNone, EmptyDict} \cup
    {UserProfile(sw, hw) : sw \in ExperienceValues, hw \in ExperienceValues}

\* d.get(key, default)
dict_get(d, key, default) == IF d[key] = NoKey THEN default ELSE d[key]

\* exp_levels.get(x, 0)
exp_levels_get(x) ==
    CASE x = "none"         -> 0
      [] x = "beginner"     -> 1
      [] x = "intermediate" -> 2
      [] x = "advanced"     -> 3
      [] x = "expert"       -> 4
      [] OTHER              -> 0

\* f >= num/den for a quotient f of positive denominator
AtLeast(f, num, den) == f.num * den >= num * f.den

\* faulty variant: the average is taken with integer division
get_user_experience_levelFloorDiv(c) ==
    IF c.user_profile = PyNone \/ c.user_profile.size = 0 THEN "beginner"
    ELSE LET sw_exp == dict_get(c.user_profile, "software_experience", "none")
             hw_exp == dict_get(c.user_profile, "hardware_experience", "none")
             avg_level == Fraction((exp_levels_get(sw_exp) + exp_levels_get(hw_exp)) \div 2, 1)
         IN  IF AtLeast(avg_level, 3, 1) THEN "advanced"
             ELSE IF AtLeast(avg_level, 3, 2) THEN "intermediate"
             ELSE "beginner"

get_user_experience_level(c) ==
    IF c.user_profile = PyNone \/ c.user_profile.size = 0 THEN "beginner"
    ELSE LET sw_exp == dict_get(c.user_profile, "software_experience", "none")
             hw_exp == dict_get(c.user_profile, "hardware_experience", "none")
             avg_level == Fraction(exp_levels_get(sw_exp) + exp_levels_get(hw_exp), 2)
         IN  IF AtLeast(avg_level, 3, 1) THEN "advanced"
             ELSE IF AtLeast(avg_level, 3, 2) THEN "intermediate"
             ELSE "beginner"

CallGetUserExperienceLevel ==
    /\ CanCall
    /\ req' = [op |-> "get_user_experience_level"]
    /\ ret' = [kind |-> "level", value |-> get_user_experience_level(ctx)]
    /\ pc' = "done"
    /\ ncalls' = ncalls + 1
    /\ UNCHANGED <<registry, history, status, ctx, inflight, idx, responses, calls,
                   apiVars>>

InitExperience == InitDispatch({StartupHistory}, ExperienceProfiles)

NextExperience == ncalls < MaxCalls /\ CallGetUserExperienceLevel

SpecExperience == InitExperience /\ [][NextExperience]_vars

-----------------------------------------------------------------------------
(* Startup through the API.  Every endpoint depends on                     *)
(* ensure_agents_initialized, a plain def, which the framework runs in a   *)
(* worker thread of its pool; the endpoint itself, a coroutine, runs on    *)
(* the event loop afterwards.  The threads of concurrent requests          *)
(* interleave between any two operations on the flag and the registry.     *)

apiFrame == <<ctx, pc, req, inflight, idx, responses, calls, ret, ncalls>>

At(r, where) == requests[r].at = where

\* if not _agents_initialized: the flag is read
CheckFlag(r) ==
    /\ At(r, "arrived")
    /\ requests' = [requests EXCEPT ![r].at =
                        IF agents_initialized THEN "endpoint" ELSE "initialize"]
    /\ UNCHANGED <<registry, history, status, agents_initialized, apiFrame>>

\* initialize_agents: registry.clear()
InitializeClear(r) ==
    /\ At(r, "initialize") /\ requests[r].k = 0
    /\ registry' = clear(registry)
    /\ history' = Append(history, Event("clear", ""))
    /\ requests' = [requests EXCEPT ![r].k = 1]
    /\ UNCHANGED <<status, agents_initialized, apiFrame>>

\* initialize_agents: the k-th registry.register(...) of a new instance
InitializeRegister(r) ==
    /\ At(r, "initialize") /\ requests[r].k \in DOMAIN InitAgents
    /\ LET a == InitAgents[requests[r].k] IN
        /\ registry' = register(registry, a)
        /\ history' = Append(history, Event("register", a))
        /\ status' = [status EXCEPT ![a] = "idle"]
    /\ requests' = [requests EXCEPT ![r].k = @ + 1]
    /\ UNCHANGED <<agents_initialized, apiFrame>>

\* _agents_initialized = True; return get_registry()
SetFlag(r) ==
    /\ At(r, "initialize") /\ requests[r].k = Len(InitAgents) + 1
    /\ agents_initialized' = TRUE
    /\ requests' = [requests EXCEPT ![r].at = "endpoint"]
    /\ UNCHANGED <<registry, history, status, apiFrame>>

\* the endpoint list_agents: registry.list_agents()
ListAgents(r) ==
    /\ At(r, "endpoint")
    /\ requests' = [requests EXCEPT
                        ![r].at = "done",
                        ![r].seen = [k \in DOMAIN registry |-> registry[k].name]]
    /\ UNCHANGED <<registry, history, status, agents_initialized, apiFrame>>

InitStartup == InitRegistry

NextStartup ==
    \E r \in RequestIds :
        \/ CheckFlag(r)
        \/ InitializeClear(r)
        \/ InitializeRegister(r)
        \/ SetFlag(r)
        \/ ListAgents(r)

SpecStartup == InitStartup /\ [][NextStartup]_vars

-----------------------------------------------------------------------------
(* Concurrent requests on the event loop.  Each request looks its agent up *)
(* in the singleton registry, builds its own AgentContext and awaits       *)
(* execute_skill on the agent object, which all requests share.  The event *)
(* loop runs one coroutine at a time and switches only at an await, so     *)
(* execute_skill up to its await of the handler is one step and the rest   *)
(* of it, after the handler completes, is another.                         *)

ConcurrentAgents == {"ContentAgent", "RAGAgent"}
ConcurrentSkills == {"explainConcepts", "ragQuery"}

\* the request has not dispatched yet
Pending == [at |-> "arrived", agent |-> NoAgent, skill |-> "",
            ctx |-> AgentContext(PyNone, PyNone), ret |-> NoRet]

concurrentFrame ==
    <<registry, history, ctx, pc, req, inflight, idx, responses, calls, ret,
      ncalls, agents_initialized>>

\* registry.get(name) and execute_skill on the agent, up to the await
Dispatch(r, name, s) ==
    /\ At(r, "arrived")
    /\ get(registry, name) # NoAgent
    /\ LET a == get(registry, name)
           b == execute_skill_begin(status, requests[r].ctx, a, s)
       IN  /\ status' = b.status
           /\ requests' = [requests EXCEPT ![r] =
                  [at |-> IF b.kind = "await" THEN "handler" ELSE "done",
                   agent |-> a, skill |-> s, ctx |-> b.ctx, ret |-> RetOf(b)]]
    /\ UNCHANGED concurrentFrame

\* the handler awaited by request r completes and execute_skill goes on
HandlerOfRequestCompletes(r, out) ==
    /\ At(r, "handler")
    /\ LET e == execute_skill_end(status, requests[r].ctx, requests[r].agent,
                                  requests[r].skill, NoKwargs, out)
       IN  /\ status' = e.status
           /\ requests' = [requests EXCEPT ![r] =
                  [@ EXCEPT !.at = "done", !.ctx = e.ctx, !.ret = RetOf(e)]]
    /\ UNCHANGED concurrentFrame

InitConcurrent ==
    /\ history = StartupHistory
    /\ registry = Replay(history)
    /\ status = IdleStatus
    /\ ctx = AgentContext(PyNone, PyNone)
    /\ pc = "idle" /\ req = NoReq /\ inflight = NoFrame /\ idx = 0
    /\ responses = <<>> /\ calls = <<>> /\ ret = NoRet /\ ncalls = 0
    /\ agents_initialized = TRUE
    /\ requests = [r \in RequestIds |-> Pending]

NextConcurrent ==
    \/ \E r \in RequestIds, name \in ConcurrentAgents, s \in ConcurrentSkills :
          Dispatch(r, name, s)
    \/ \E r \in RequestIds, out \in PipelineOutcomes :
          HandlerOfRequestCompletes(r, out)

SpecConcurrent == InitConcurrent /\ [][NextConcurrent]_vars

-----------------------------------------------------------------------------
(* Properties of execute_skill (SpecExec) *)

ExecDone == pc = "done" /\ req.op = "execute_skill"

\* the call returned the failure response for exception e and left the
\* agent in status ERROR
FailureReturned(r, st, a, e) ==
    /\ r.kind = "response"
    /\ ~r.value.success
    /\ r.value.error = StrOf(e)
    /\ st[a] = "error"

Names(text, s) == text.t = "str" /\ \E k \in DOMAIN text.parts : text.parts[k] = s

\* C2: execute_skill with a skill name that is not in the agent's skill map
\* returns a response with success false and an error naming the skill, and
\* raises nothing.
C2_UnknownSkillFails ==
    (ExecDone /\ ~has_skill(req.agent, req.skill))
        => /\ ret.kind = "response"
           /\ ~ret.value.success
           /\ Names(ret.value.error, req.skill)

C2_Witness ==
    /\ ExecDone
    /\ req.agent = "content" /\ req.skill = "noSuchSkill"
    /\ ret.kind = "response" /\ ~ret.value.success

\* success=true with no error, or success=false with a non-empty error
WellFormed(r) ==
    IF r.success THEN r.error = PyNone
    ELSE r.error.t = "str" /\ ~IsEmptyText(r.error)

\* C4: every response returned satisfies exactly one of success=true with
\* error absent, or success=false with a non-empty error message.
C4_ResponseWellFormed ==
    /\ ret.kind = "response" => WellFormed(ret.value)
    /\ ret.kind = "responses" => \A k \in DOMAIN ret.value : WellFormed(ret.value[k])

\* None, the empty string or the empty map
NullOrEmpty(v) ==
    \/ v = PyNone
    \/ v.t = "dict" /\ v.size = 0
    \/ v.t = "str" /\ IsEmptyText(v)

\* C16: the handler of a skill is invoked only when every field named in
\* required_context is present on the context and neither null nor empty;
\* otherwise Skill.execute raises the missing-field error.
C16_EmptyFieldRejected ==
    \A c \in DOMAIN calls :
        LET rc == RequiredContext(calls[c].frame.agent, calls[c].frame.skill) IN
        \A k \in DOMAIN rc :
            rc[k] \in DOMAIN ctx /\ ~NullOrEmpty(ctx[rc[k]])

\* the values of AgentStatus that execute_skill assigns, and the initial one
AssignedStatuses == {"idle", "running", "success", "error"}

\* C17: whenever execute_skill returns for a registered skill the agent's
\* status is SUCCESS if the response has success true and ERROR otherwise
\* (so not RUNNING); the status is never WAITING and never goes back to IDLE.
C17_StatusAfterCall ==
    /\ [](\A a \in AgentIds : status[a] \in AssignedStatuses)
    /\ []((ExecDone /\ ret.kind = "response" /\ has_skill(req.agent, req.skill))
            => status[req.agent] = IF ret.value.success THEN "success" ELSE "error")
    /\ [][\A a \in AgentIds : status[a] # "idle" => status'[a] # "idle"]_vars

\* ContentAgent has succeeded once and its second call has returned a failure
C17_Witness ==
    /\ ExecDone /\ ncalls = 2
    /\ req.agent = "content"
    /\ Len(ctx.trace) = 1 /\ ctx.trace[1].agent = "ContentAgent"
    /\ ret.kind = "response" /\ ~ret.value.success
    /\ has_skill(req.agent, req.skill)
    /\ status["content"] = "error"

-----------------------------------------------------------------------------
(* Properties of route (SpecRoute) *)

RouteDone == pc = "done" /\ req.op = "route"

\* the call names an agent or a skill that cannot be found
RouteNotFound ==
    IF ~Falsy(req.force_agent)
    THEN \/ get(registry, req.force_agent) = NoAgent
         \/ /\ ~Falsy(req.force_skill)
            /\ ~has_skill(get(registry, req.force_agent), req.force_skill)
    ELSE get_agent_for_intent(registry, Classified[req.message].intent).agent = NoAgent

\* C3: route returns a response and raises no exception, whatever the
\* registry, force_agent and force_skill are, and every not-found condition
\* yields success false.
C3_RouteTotal ==
    RouteDone => /\ ret.kind = "response"
                 /\ RouteNotFound => ~ret.value.success

\* C15: after every route call made without force_agent the context's
\* metadata holds that call's intent and confidence, whether the skill
\* succeeds or fails and whatever the registry contains.
C15_MetadataRecorded ==
    (RouteDone /\ Falsy(req.force_agent))
      => /\ ctx.metadata.routed_intent = PyStr(<<Classified[req.message].intent>>)
         /\ ctx.metadata.routing_confidence = Classified[req.message].confidence

-----------------------------------------------------------------------------
(* Properties of multi_agent_pipeline (SpecPipeline) *)

PipelineCalled == req.op = "pipeline"
PipelineReturned == PipelineCalled /\ pc = "done" /\ ret.kind = "responses"

\* the step asks to stop on error: stop_on_error is true or unspecified
StopRequested(step) == step.stop_on_error # "false"

\* step k (1-based) names an agent that is not registered
MissingAt(k) == get(registry, req.steps[k].agent) = NoAgent

\* the responses of the steps before k are recorded and none stopped the run
ReachedStep(k) ==
    /\ Len(responses) >= k - 1
    /\ \A j \in 1..(k - 1) : responses[j].success \/ ~StopRequested(req.steps[j])

\* C5: a step k with a missing agent and stop_on_error true or unspecified,
\* reached by the pipeline, ends it: no later step is executed and the list
\* returned has k responses, the last the failure synthesized for step k.
C5_MissingAgentStops ==
    PipelineCalled =>
      \A k \in DOMAIN req.steps :
        (MissingAt(k) /\ StopRequested(req.steps[k]) /\ ReachedStep(k))
          => /\ pc = "done"
             /\ ret.kind = "responses"
             /\ Len(ret.value) = k
             /\ ret.value[k] = MissingAgentResponse(req.steps[k], k - 1)
             /\ \A c \in DOMAIN calls : calls[c].step < k - 1

\* the second of three steps has a missing agent, the flag unspecified
C5_Witness ==
    /\ PipelineReturned
    /\ Len(req.steps) = 3
    /\ MissingAt(2) /\ req.steps[2].stop_on_error = "absent"
    /\ Len(ret.value) = 2
    /\ ret.value[1].success

\* C6 as stated: after a step with a missing agent and stop_on_error false,
\* every subsequent step is processed.
C6_AllLaterStepsProcessed ==
    PipelineReturned =>
      \A k \in DOMAIN req.steps :
        (MissingAt(k) /\ ~StopRequested(req.steps[k]) /\ ReachedStep(k))
          => Len(ret.value) = Len(req.steps)

\* step k + 1 has been taken up: its response is recorded, or its handler
\* is awaited, or its handler's exception ended the call
TakenUp(k) ==
    \/ Len(responses) >= k
    \/ /\ Len(responses) = k - 1
       /\ \/ pc = "handler" /\ idx = k - 1
          \/ pc = "done" /\ ret.kind = "raise" /\ idx = k - 1

\* C6 amended: after a step with a missing agent and stop_on_error false a
\* failure is recorded for it and the next step, if there is one, is
\* processed.
C6_NextStepProcessed ==
    PipelineCalled =>
      \A k \in DOMAIN req.steps :
        (MissingAt(k) /\ ~StopRequested(req.steps[k]) /\ ReachedStep(k))
          => /\ Len(responses) >= k
             /\ responses[k] = MissingAgentResponse(req.steps[k], k - 1)
             /\ k < Len(req.steps) => TakenUp(k + 1)

\* a missing agent with stop_on_error false, then a stopping failure, then
\* a step that is never processed
C6_Witness ==
    /\ PipelineReturned
    /\ Len(req.steps) = 3
    /\ MissingAt(1) /\ ~StopRequested(req.steps[1])
    /\ MissingAt(2) /\ StopRequested(req.steps[2])
    /\ Len(ret.value) = 2

\* C7: the list returned holds the responses of the steps up to the first
\* one that failed with stop_on_error true (all steps when there is none),
\* in step order, none missing.
C7_ResponsesUpToStop ==
    PipelineReturned =>
      LET R == ret.value IN
      /\ Len(R) <= Len(req.steps)
      /\ \A j \in DOMAIN R :
            /\ R[j].agent_name = req.steps[j].agent
            /\ R[j].skill_name = req.steps[j].skill
            /\ j < Len(R) => (R[j].success \/ ~StopRequested(req.steps[j]))
      /\ Len(R) < Len(req.steps)
            => (Len(R) > 0 /\ ~R[Len(R)].success /\ StopRequested(req.steps[Len(R)]))
      /\ \A c \in DOMAIN calls : calls[c].step + 1 <= Len(R)
      /\ Len(SelectSeq(R, LAMBDA r : r.success)) = Len(ctx.trace)

\* a failure that does not stop, a success, a failure that stops
C7_Witness ==
    /\ PipelineReturned
    /\ Len(req.steps) = 3 /\ Len(ret.value) = 3
    /\ ~ret.value[1].success /\ ~StopRequested(req.steps[1])
    /\ ret.value[2].success
    /\ ~ret.value[3].success /\ StopRequested(req.steps[3])

\* C8: a step with use_previous_output that follows a recorded response is
\* invoked with previous_output set to the data of the response just before
\* it (None when that response is a failure); any other step is invoked
\* with its own kwargs.
C8_PreviousOutput ==
    PipelineCalled =>
      \A c \in DOMAIN calls :
        LET i == calls[c].step
            step == req.steps[i + 1]
            kw == calls[c].frame.kwargs
        IN  IF step.use_previous_output /\ i >= 1
            THEN /\ kw.previous_output = responses[i].data
                 /\ ~responses[i].success => kw.previous_output = PyNone
            ELSE kw = step.kwargs

\* the third step receives the data of the second response, a failure,
\* not that of the first
C8_Witness ==
    /\ PipelineReturned
    /\ Len(calls) = 3
    /\ req.steps[3].use_previous_output
    /\ responses[1].data = PyData("X")
    /\ ~responses[2].success
    /\ calls[3].frame.kwargs.previous_output = PyNone


-----------------------------------------------------------------------------
(* Properties of classify_intent (SpecClassify) *)

ClassifyDone == pc = "done" /\ req.op = "classify_intent"

\* the categories in the order the table declares them
DeclaredOrder ==
    <<"translation", "personalization", "code", "content", "rag", "auth">>

\* number of patterns of each category that each message matches
HitsTable ==
    [m \in ClassifyMessages |->
        [c \in Intents |->
            Scores(m)[CHOOSE j \in DOMAIN INTENT_PATTERNS :
                          INTENT_PATTERNS[j].intent = c]]]

\* number of patterns of category DeclaredOrder[k] that the message matches
Hits(k, m) == HitsTable[m][DeclaredOrder[k]]

MaxHits(m) ==
    CHOOSE n \in 0..20 :
        /\ \E k \in DOMAIN DeclaredOrder : Hits(k, m) = n
        /\ \A k \in DOMAIN DeclaredOrder : Hits(k, m) <= n

\* C12: for a message whose maximum score is positive classify_intent
\* returns a category with that score, and among several with that score
\* the one declared first.
C12_FirstMaxWins ==
    (ClassifyDone /\ MaxHits(req.message) > 0)
      => \E k \in DOMAIN DeclaredOrder :
            /\ ret.value.intent = DeclaredOrder[k]
            /\ Hits(k, req.message) = MaxHits(req.message)
            /\ \A j \in 1..(k - 1) : Hits(j, req.message) < MaxHits(req.message)

\* translation, code and rag tie with one match each, the rag word coming
\* first in the message and the translation word last
C12_Witness ==
    /\ ClassifyDone
    /\ req.message = Join(<<FragSearch, FragDebug, FragTranslate>>)
    /\ Hits(1, req.message) = 1 /\ Hits(3, req.message) = 1 /\ Hits(5, req.message) = 1
    /\ ret.value.intent = "translation"

\* C13: classify_intent returns ("rag", 0.5) if and only if the message
\* matches no pattern of any category.
C13_DefaultIffNoMatch ==
    ClassifyDone
      => ((ret.value.intent = "rag" /\ ret.value.confidence = Fraction(1, 2))
            <=> MaxHits(req.message) = 0)

\* "fix" alone matches nothing: fix.*bug needs a following "bug"
C13_Witness ==
    /\ ClassifyDone
    /\ req.message = FragFix
    /\ MaxHits(req.message) = 0
    /\ ret.value = [intent |-> "rag", confidence |-> Fraction(1, 2)]

\* C14: when the winning category matches n >= 1 patterns the confidence is
\* 1/3 for n = 1, 2/3 for n = 2 and exactly 1 for every n >= 3.
C14_ConfidenceCapped ==
    (ClassifyDone /\ MaxHits(req.message) >= 1)
      => LET n == MaxHits(req.message) IN
         ret.value.confidence =
            CASE n = 1 -> Fraction(1, 3)
              [] n = 2 -> Fraction(2, 3)
              [] OTHER -> Fraction(1, 1)

\* four patterns of code match: fix.*bug, debug, python, code
C14_Witness ==
    /\ ClassifyDone
    /\ req.message = Join(<<FragFix, FragDebug, FragPython>>)
    /\ MaxHits(req.message) = 4
    /\ ret.value = [intent |-> "code", confidence |-> Fraction(1, 1)]


-----------------------------------------------------------------------------
(* Properties of the startup through the API (SpecStartup) *)

\* number of runs of initialize_agents so far
InitializeRuns == Cardinality({k \in DOMAIN history : history[k].op = "clear"})

\* the names initialize_agents registers, in its order
InitNames == [k \in DOMAIN InitAgents |-> AgentName(InitAgents[k])]

\* C18: under any interleaving of concurrent requests passing through
\* ensure_agents_initialized, initialize_agents runs at most once, and no
\* request being handled observes the registry empty or partly populated.
C18_InitializedOnce ==
    /\ InitializeRuns <= 1
    /\ \A r \in RequestIds : At(r, "done") => requests[r].seen = InitNames


-----------------------------------------------------------------------------
(* Properties of the trace (SpecTrace) *)

\* C19: every entry of context.trace has an input summary and an output
\* summary of at most 500 characters, whatever the length of the kwargs
\* and of the result.
C19_TraceSummariesBounded ==
    \A k \in DOMAIN ctx.trace :
        /\ TextLen(ctx.trace[k].input) <= 500
        /\ TextLen(ctx.trace[k].output) <= 500

\* a call whose kwargs print as 1015 characters and whose result has 501
\* has been traced with 500 characters of each
C19_Witness ==
    /\ ExecDone /\ Len(calls) = 1 /\ Len(ctx.trace) = 1
    /\ TextLen(str(calls[1].frame.kwargs)) = 1015
    /\ ret.kind = "response" /\ TextLen(str(ret.value.data)) = 501
    /\ TextLen(ctx.trace[1].input) = 500
    /\ TextLen(ctx.trace[1].output) = 500


-----------------------------------------------------------------------------
(* Properties of get_user_experience_level (SpecExperience) *)

ExperienceDone == pc = "done" /\ req.op = "get_user_experience_level"

\* the ordinal score of what the profile holds under a key: none 0,
\* beginner 1, intermediate 2, advanced 3, expert 4, unknown or missing 0
OrdinalScore(profile, key) ==
    IF profile = PyNone \/ profile = EmptyDict THEN 0
    ELSE CASE profile[key] = "beginner"     -> 1
           [] profile[key] = "intermediate" -> 2
           [] profile[key] = "advanced"     -> 3
           [] profile[key] = "expert"       -> 4
           [] OTHER                         -> 0

\* twice the average of the two scores
ScoreSum(profile) ==
    OrdinalScore(profile, "software_experience")
        + OrdinalScore(profile, "hardware_experience")

\* C20: get_user_experience_level returns "advanced" iff the average of
\* the two scores is >= 3, "intermediate" iff it is in [1.5, 3), and
\* "beginner" otherwise, including for a missing or empty profile.
C20_ExperienceTier ==
    ExperienceDone =>
        ret.value = IF ScoreSum(ctx.user_profile) >= 6 THEN "advanced"
                    ELSE IF ScoreSum(ctx.user_profile) >= 3 THEN "intermediate"
                    ELSE "beginner"

\* beginner and intermediate average to exactly 1.5
C20_Witness ==
    /\ ExperienceDone
    /\ ctx.user_profile = UserProfile("beginner", "intermediate")
    /\ ret.value = "intermediate"

-----------------------------------------------------------------------------
(* Properties of the routing paths (SpecRoute), continued *)

\* the scores of "explain what is inverse kinematics"
ExplainScores == Scores(MsgExplain)

\* the keyword arguments route passes: message, and nothing else
MessageOnly(m) == [message |-> PyText(m), previous_output |-> Absent]

\* C21: "explain what is inverse kinematics" matches at least two patterns
\* of content, is classified content with confidence at least 0.5, and a
\* route of it without force_agent on the registry initialize_agents builds
\* executes explainConcepts on ContentAgent.
C21_ExplainRoutedToContent ==
    /\ \E k \in DOMAIN INTENT_PATTERNS :
          INTENT_PATTERNS[k].intent = "content" /\ ExplainScores[k] >= 2
    /\ Classified[MsgExplain].intent = "content"
    /\ AtLeast(Classified[MsgExplain].confidence, 1, 2)
    /\ (/\ req.op = "route" /\ req.message = MsgExplain
        /\ Falsy(req.force_agent) /\ history = StartupHistory)
         => /\ calls # <<>>
            /\ calls[Len(calls)].frame =
                  [agent |-> "content", skill |-> "explainConcepts",
                   kwargs |-> MessageOnly(MsgExplain)]
            /\ pc = "handler" => inflight = calls[Len(calls)].frame
            /\ (pc = "done" /\ ret.kind = "response")
                  => /\ ret.value.agent_name = "ContentAgent"
                     /\ ret.value.skill_name = "explainConcepts"

\* the handler of explainConcepts returned and the route succeeded
C21_Witness ==
    /\ RouteDone /\ req.message = MsgExplain /\ Falsy(req.force_agent)
    /\ history = StartupHistory
    /\ ret.kind = "response" /\ ret.value.success
    /\ ret.value.agent_name = "ContentAgent"
    /\ ret.value.skill_name = "explainConcepts"
    /\ ctx.trace[Len(ctx.trace)].skill = "explainConcepts"

SkillNotFound(r) ==
    /\ ~r.success
    /\ r.error.t = "str" /\ Len(r.error.parts) > 0
    /\ r.error.parts[1] = "Skill '"

\* C24: route_to_skill(s) executes s on the agent get_by_skill(s) returns;
\* when no registered agent has s it executes nothing and returns a failure
\* naming s; it never returns the agent-level "Skill not found" failure.
C24_RouteToSkill ==
    /\ [][\A s \in RoutedSkills :
            (req' = [op |-> "route_to_skill", skill |-> s] /\ ncalls' = ncalls + 1)
              => LET a == get_by_skill(registry, s) IN
                 IF a = NoAgent
                 THEN /\ calls' = calls /\ pc' = "done"
                      /\ ret'.kind = "response" /\ ~ret'.value.success
                      /\ ret'.value.skill_name = s
                      /\ Names(ret'.value.error, s)
                      /\ status' = status /\ ctx' = ctx
                 ELSE RequiredContext(a, s) = <<>>
                        => /\ pc' = "handler"
                           /\ calls' = Append(calls,
                                 [frame |-> [agent |-> a, skill |-> s,
                                             kwargs |-> NoKwargs],
                                  step |-> -1])]_vars
    /\ []((req.op = "route_to_skill" /\ ret.kind = "response")
            => ~SkillNotFound(ret.value))

\* explainConcepts is held by ContentAgent and by the agent that replaced
\* RAGAgent; ContentAgent, registered first, ran it
C24_Witness ==
    /\ pc = "done" /\ req.op = "route_to_skill" /\ req.skill = "explainConcepts"
    /\ get(registry, "RAGAgent") = "rag2"
    /\ ret.kind = "response" /\ ret.value.success
    /\ ret.value.agent_name = "ContentAgent"

-----------------------------------------------------------------------------
(* Properties of multi_agent_pipeline (SpecPipeline), continued *)

\* the handler calls that have started and neither have their response
\* recorded nor ended the run with their exception
Outstanding ==
    {c \in DOMAIN calls : pc # "done" /\ calls[c].step >= Len(responses)}

\* C22: within one run of multi_agent_pipeline at most one handler call is
\* outstanding on the context, the handler of a step starts only after the
\* responses of all steps before it are recorded, and the handlers are
\* invoked in step order.
C22_OneHandlerAtATime ==
    PipelineCalled =>
      /\ Cardinality(Outstanding) <= 1
      /\ pc = "handler" => Outstanding = {Len(calls)}
      /\ \A c \in DOMAIN calls :
            /\ Len(responses) >= calls[c].step
            /\ calls[c].step + 1 \in DOMAIN req.steps
            /\ AgentName(calls[c].frame.agent) = req.steps[calls[c].step + 1].agent
            /\ calls[c].frame.skill = req.steps[calls[c].step + 1].skill
            /\ \A d \in DOMAIN calls : c < d => calls[c].step < calls[d].step

\* the handler of the third step is awaited, two responses recorded
C22_Witness ==
    /\ PipelineCalled /\ pc = "handler"
    /\ Len(calls) = 3 /\ idx = 2
    /\ Len(responses) = 2
    /\ responses[1].success /\ responses[2].success

-----------------------------------------------------------------------------
(* Properties of the context trace (SpecAnyDispatch) *)

\* the responses of the executions that returned in this step
Completed ==
    IF req'.op = "pipeline"
    THEN IF ncalls' # ncalls THEN responses'
         ELSE SubSeq(responses', Len(responses) + 1, Len(responses'))
    ELSE IF ret'.kind = "response" THEN <<ret'.value>> ELSE <<>>

\* C25: across any sequence of execute_skill, route, route_to_skill and
\* multi_agent_pipeline calls on a context its trace only grows at the end:
\* the trace before is a prefix of the trace after, with one entry more for
\* each execution that returned success true and none for a failure.
C25_TraceAppendOnly ==
    [][ /\ Len(ctx'.trace) >= Len(ctx.trace)
        /\ SubSeq(ctx'.trace, 1, Len(ctx.trace)) = ctx.trace
        /\ Len(ctx'.trace) =
              Len(ctx.trace) + Len(SelectSeq(Completed, LAMBDA r : r.success))
      ]_vars

\* a pipeline appended two entries, then a route failed and appended none
C25_Witness ==
    /\ ncalls = 2 /\ RouteDone
    /\ ret.kind = "response" /\ ~ret.value.success
    /\ Len(calls) = 3
    /\ Len(ctx.trace) = 2
    /\ ctx.trace[1].agent = "ContentAgent" /\ ctx.trace[2].agent = "RAGAgent"

\* the steps, by number, whose response in R has success true
Successes(R) == SelectSeq([j \in 1..Len(R) |-> j], LAMBDA j : R[j].success)

\* C30: when multi_agent_pipeline returns, the trace entries it appended
\* are as many as the responses with success true in the list it returns,
\* in step order, each with the agent and skill names of its step.
C30_TraceMatchesSuccesses ==
    PipelineReturned =>
      LET S == Successes(ret.value)
          before == Len(ctx.trace) - Len(S)
      IN  /\ before >= 0
          /\ ncalls = 1 => before = 0
          /\ \A k \in DOMAIN S :
                /\ ctx.trace[before + k].agent = req.steps[S[k]].agent
                /\ ctx.trace[before + k].skill = req.steps[S[k]].skill

\* RAGAgent, a failure that does not stop, ContentAgent: two entries
C30_Witness ==
    /\ PipelineReturned /\ ncalls = 1
    /\ Len(ret.value) = 3
    /\ ret.value[1].success /\ ~ret.value[2].success /\ ret.value[3].success
    /\ Len(ctx.trace) = 2
    /\ ctx.trace[1].agent = "RAGAgent" /\ ctx.trace[2].agent = "ContentAgent"

-----------------------------------------------------------------------------
(* Frame properties *)

\* C26: execute_skill called with a skill name the agent does not have
\* changes neither the agent's status nor the context's trace and metadata,
\* and calls no handler.
C26_UnknownSkillFrame ==
    [][\A a \in ExecAgents, s \in ExecSkills :
          (/\ ~has_skill(a, s)
           /\ req' = [op |-> "execute_skill", agent |-> a, skill |-> s]
           /\ ncalls' = ncalls + 1)
            => /\ status' = status
               /\ ctx' = ctx
               /\ calls' = calls
               /\ pc' = "done"]_vars

\* ContentAgent succeeded, then was asked for a skill it does not have:
\* it is still in status SUCCESS and the trace still has its one entry
C26_Witness ==
    /\ ExecDone /\ ncalls = 2
    /\ req.agent = "content" /\ req.skill = "noSuchSkill"
    /\ ret.kind = "response" /\ ~ret.value.success
    /\ status["content"] = "success"
    /\ Len(ctx.trace) = 1

\* C27: a route call with a force_agent leaves the routed_intent and
\* routing_confidence of the context's metadata as they were, whether the
\* forced agent is registered or not.
C27_ForcedLeavesMetadata ==
    [][(req'.op = "route" /\ ~Falsy(req'.force_agent))
          => ctx'.metadata = ctx.metadata]_vars

\* a classified route recorded content, then a forced route of a message
\* that classifies as translation found no agent: content is still recorded
C27_Witness ==
    /\ RouteDone /\ ncalls = 2
    /\ req.force_agent = "GhostAgent" /\ req.message = MsgTranslate
    /\ ret.kind = "response" /\ ~ret.value.success
    /\ ctx.metadata.routed_intent = PyStr(<<"content">>)
    /\ ctx.metadata.routing_confidence = Fraction(2, 3)

\* the intents classify_intent returns for the messages of the model
ReturnedIntents ==
    {Classified[m].intent : m \in Messages}
        \cup {ClassifyTable[m].intent : m \in ClassifyMessages}

\* the failure route returns when the intent's agent is not registered
NoAgentAvailable(r) ==
    /\ ~r.success
    /\ r.error = PyStr(<<"No agent available for this request">>)

\* C28: on the registry initialize_agents builds, every intent
\* classify_intent returns is a key of INTENT_TO_AGENT whose agent is
\* registered and has the mapped skill, so a route without force_agent
\* returns neither "No agent available" nor "Skill not found".
C28_EveryIntentServed ==
    history = StartupHistory =>
      /\ \A k \in DOMAIN DeclaredOrder :
            LET t == get_agent_for_intent(registry, DeclaredOrder[k]) IN
            /\ DeclaredOrder[k] \in Intents
            /\ t.agent # NoAgent
            /\ has_skill(t.agent, t.skill)
      /\ \A i \in ReturnedIntents : \E k \in DOMAIN DeclaredOrder : DeclaredOrder[k] = i
      /\ (RouteDone /\ Falsy(req.force_agent) /\ ret.kind = "response")
            => /\ ~NoAgentAvailable(ret.value)
               /\ ~SkillNotFound(ret.value)

\* a message classified as translation reached TranslationAgent
C28_Witness ==
    /\ history = StartupHistory
    /\ RouteDone /\ Falsy(req.force_agent) /\ req.message = MsgTranslate
    /\ ret.kind = "response" /\ ret.value.success
    /\ ret.value.agent_name = "TranslationAgent"
    /\ ret.value.skill_name = "translateToUrdu"

-----------------------------------------------------------------------------
(* Properties of concurrent requests (SpecConcurrent) *)

\* C29: while requests dispatch concurrently on one registered agent, the
\* agent's status is RUNNING at every moment at which a handler call of
\* the agent is in flight.
C29_RunningWhileInFlight ==
    \A r \in RequestIds :
        requests[r].at = "handler" => status[requests[r].agent] = "running"

=============================================================================
